---- MODULE Spec2Model ----
(***************************************************************************)
(* Model of nozomi/helpers.py: tag sanitation and encoding, post-id        *)
(* parsing, and the builders of media, tag-index and post-JSON URLs.       *)
(*                                                                         *)
(* A Python str is a sequence of one-character strings.  The module is     *)
(* stateless; the state of the model is the call in progress: which        *)
(* function was called, with which argument, and its outcome (the value    *)
(* returned, or the exception raised).                                     *)
(***************************************************************************)
EXTENDS Integers, Sequences, FiniteSets, TLC

VARIABLES pc, fn, tag, url, id, media, post_id, ret

vars == <<pc, fn, tag, url, id, media, post_id, ret>>

(***************************************************************************)
(* Bounds of the model.                                                    *)
(***************************************************************************)
MaxTagLen == 4
MaxEncLen == 4
MaxIdLen == 4
MaxUrlPieces == 4
MaxPostId == 1234
MaxNegPostId == 12

(***************************************************************************)
(* Sequences and literals.                                                 *)
(***************************************************************************)
RECURSIVE SeqsUpTo(_, _)
SeqsUpTo(S, n) ==
    IF n = 0 THEN {<<>>}
    ELSE LET shorter == SeqsUpTo(S, n - 1)
         IN  shorter \cup {Append(s, c) : s \in {t \in shorter : Len(t) = n - 1}, c \in S}

RECURSIVE Flatten(_)
Flatten(ss) == IF ss = <<>> THEN <<>> ELSE Head(ss) \o Flatten(Tail(ss))

SetMin(S) == CHOOSE x \in S : \A y \in S : x <= y

Gif == <<"g", "i", "f">>
Webp == <<"w", "e", "b", "p">>
PostSlash == <<"p", "o", "s", "t", "/">>
DotHtml == <<".", "h", "t", "m", "l">>
Https == <<"h", "t", "t", "p", "s", ":", "/", "/">>
DotNozomiLa == <<".", "n", "o", "z", "o", "m", "i", ".", "l", "a", "/">>
TagUrlPrefix == <<"h", "t", "t", "p", "s", ":", "/", "/", "j", ".", "n", "o", "z", "o", "m", "i", ".", "l", "a", "/", "n", "o", "z", "o", "m", "i", "/">>
DotNozomi == <<".", "n", "o", "z", "o", "m", "i">>
PostUrlPrefix == <<"h", "t", "t", "p", "s", ":", "/", "/", "j", ".", "n", "o", "z", "o", "m", "i", ".", "l", "a", "/", "p", "o", "s", "t", "/">>
DotJson == <<".", "j", "s", "o", "n">>

(***************************************************************************)
(* Outcomes of a call: a returned value (a str or an int) or an exception. *)
(* calls lists the module's own functions the call went through.           *)
(***************************************************************************)
NoRet == [raised |-> "None", type |-> "NoneType", str |-> <<>>, int |-> 0, calls |-> <<>>]
ReturnStr(s, cs) == [raised |-> "None", type |-> "str", str |-> s, int |-> 0, calls |-> cs]
ReturnInt(n, cs) == [raised |-> "None", type |-> "int", str |-> <<>>, int |-> n, calls |-> cs]
Raise(e, cs) == [raised |-> e, type |-> "NoneType", str |-> <<>>, int |-> 0, calls |-> cs]

(***************************************************************************)
(* Python built-ins the helpers use.                                       *)
(***************************************************************************)
\* str.isspace() of one character
IsSpace(c) == c \in {" ", "\t", "\n", "\r"}

\* str.lower() of one character
LowerChar(c) ==
    CASE c = "A" -> "a"
      [] c = "B" -> "b"
      [] c = "F" -> "f"
      [] OTHER -> c

\* str.lower()
lower(s) == [i \in 1..Len(s) |-> LowerChar(s[i])]

RECURSIVE lstrip(_)
lstrip(s) == IF s # <<>> /\ IsSpace(Head(s)) THEN lstrip(Tail(s)) ELSE s

RECURSIVE rstrip(_)
rstrip(s) == IF s # <<>> /\ IsSpace(s[Len(s)]) THEN rstrip(SubSeq(s, 1, Len(s) - 1)) ELSE s

\* str.strip()
strip(s) == rstrip(lstrip(s))

Digits == <<"0", "1", "2", "3", "4", "5", "6", "7", "8", "9">>
HexDigits == Digits \o <<"a", "b", "c", "d", "e", "f">>
IsDigit(c) == \E d \in 1..10 : Digits[d] = c
DigitValue(c) == (CHOOSE d \in 1..10 : Digits[d] = c) - 1

\* str(n) of an int
RECURSIVE StrNat(_)
StrNat(n) == IF n < 10 THEN <<Digits[n + 1]>> ELSE Append(StrNat(n \div 10), Digits[(n % 10) + 1])
py_str(n) == IF n < 0 THEN <<"-">> \o StrNat(0 - n) ELSE StrNat(n)

\* format(n, 'x')
RECURSIVE format_x(_)
format_x(n) == IF n < 16 THEN <<HexDigits[n + 1]>> ELSE Append(format_x(n \div 16), HexDigits[(n % 16) + 1])

\* ord(c) of the characters the encoder's pattern matches
ord(c) ==
    CASE c = "&" -> 38
      [] c = "/" -> 47
      [] c = ":" -> 58
      [] c = ";" -> 59
      [] c = "=" -> 61
      [] c = "?" -> 63
      [] c = "@" -> 64

\* int(s): surrounding whitespace is dropped, one sign is allowed, and the rest
\* is decimal digits, single underscores allowed between two digits.
\* [ok |-> FALSE] stands for ValueError.
RECURSIVE DecimalValue(_, _)
DecimalValue(s, acc) ==
    IF s = <<>> THEN acc
    ELSE IF Head(s) = "_" THEN DecimalValue(Tail(s), acc)
    ELSE DecimalValue(Tail(s), 10 * acc + DigitValue(Head(s)))

IsDecimalLiteral(s) ==
    /\ s # <<>>
    /\ \A i \in 1..Len(s) : IsDigit(s[i]) \/ s[i] = "_"
    /\ IsDigit(s[1])
    /\ IsDigit(s[Len(s)])
    /\ \A i \in 1..(Len(s) - 1) : ~(s[i] = "_" /\ s[i + 1] = "_")

py_int(s) ==
    LET t == strip(s)
        signed == t # <<>> /\ Head(t) \in {"+", "-"}
        body == IF signed THEN Tail(t) ELSE t
    IN  IF ~IsDecimalLiteral(body) THEN [ok |-> FALSE, value |-> 0]
        ELSE [ok |-> TRUE,
              value |-> IF signed /\ Head(t) = "-" THEN 0 - DecimalValue(body, 0)
                        ELSE DecimalValue(body, 0)]

\* whether the literal lit occurs in s at position i
LitAt(s, lit, i) == i + Len(lit) - 1 <= Len(s) /\ SubSeq(s, i, i + Len(lit) - 1) = lit

\* A faulty variant of re_search_post: the greedy pattern ([\s\S]*), which
\* captures up to the last '.html'.
Mut_re_search_post(u) ==
    LET ends(i) == {j \in (i + 5)..Len(u) : LitAt(u, DotHtml, j)}
        starts == {i \in 1..Len(u) : LitAt(u, PostSlash, i) /\ ends(i) # {}}
    IN  IF starts = {} THEN [found |-> FALSE, group1 |-> <<>>]
        ELSE LET i == SetMin(starts)
             IN  [found |-> TRUE,
                  group1 |-> SubSeq(u, i + 5, (0 - SetMin({0 - j : j \in ends(i)})) - 1)]

\* re.search(r"post\/([\s\S]*?)\.html", url): the leftmost start, then the
\* shortest capture.  [found |-> FALSE] stands for None.
re_search_post(u) ==
    LET ends(i) == {j \in (i + 5)..Len(u) : LitAt(u, DotHtml, j)}
        starts == {i \in 1..Len(u) : LitAt(u, PostSlash, i) /\ ends(i) # {}}
    IN  IF starts = {} THEN [found |-> FALSE, group1 |-> <<>>]
        ELSE LET i == SetMin(starts)
             IN  [found |-> TRUE, group1 |-> SubSeq(u, i + 5, SetMin(ends(i)) - 1)]

\* re.sub('[/#%]', '', s)
re_sub_invalid(s) == SelectSeq(s, LAMBDA c : c \notin {"/", "#", "%"})

(***************************************************************************)
(* The helpers.  Identifiers and tags are drawn from alphabets without a   *)
(* backslash, so the replacement template of _calculate_post_filepath      *)
(* holds no escape besides its own two group references.                   *)
(***************************************************************************)
\* A faulty variant of _validate_tag_sanitized: the leading '-' is not checked.
Mut_validate_tag_sanitized(t) ==
    IF t = <<>> THEN "InvalidTagFormat" ELSE "None"

\* helpers.py: _validate_tag_sanitized.  "None" is a normal return.
_validate_tag_sanitized(t) ==
    IF t = <<>> THEN "InvalidTagFormat"
    ELSE IF t[1] = "-" THEN "InvalidTagFormat"
    ELSE "None"

\* A faulty variant of convert_char_to_hex: format(.., 'X'), uppercase digits.
Mut_convert_char_to_hex(c) ==
    <<"%">> \o [k \in 1..Len(format_x(ord(c))) |->
                  CASE format_x(ord(c))[k] = "a" -> "A"
                    [] format_x(ord(c))[k] = "b" -> "B"
                    [] format_x(ord(c))[k] = "d" -> "D"
                    [] format_x(ord(c))[k] = "f" -> "F"
                    [] OTHER -> format_x(ord(c))[k]]

\* helpers.py: _encode_tag
convert_char_to_hex(c) == <<"%">> \o format_x(ord(c))

RECURSIVE re_sub_encode(_)
re_sub_encode(s) ==
    IF s = <<>> THEN <<>>
    ELSE IF Head(s) \in {";", "/", "?", ":", "@", "=", "&"}
         THEN convert_char_to_hex(Head(s)) \o re_sub_encode(Tail(s))
         ELSE <<Head(s)>> \o re_sub_encode(Tail(s))

_encode_tag(sanitized_tag) == re_sub_encode(sanitized_tag)

\* helpers.py: _calculate_post_filepath, line 159:
\* re.sub('^.*(..)(.)$', r'\g<2>/\g<1>/' + id, id): '.' matches anything but a
\* newline, '$' holds at the end of the string and before a final newline, and
\* what follows the match is kept.
re_sub_shard(i) ==
    LET n == Len(i)
        stops == {n} \cup (IF n > 0 /\ i[n] = "\n" THEN {n - 1} ELSE {})
        matches == {e \in stops : e >= 3 /\ \A k \in 1..e : i[k] # "\n"}
    IN  IF matches = {} THEN i
        ELSE LET e == 0 - SetMin({0 - x : x \in matches})
             IN  <<i[e]>> \o <<"/">> \o <<i[e - 2], i[e - 1]>> \o <<"/">> \o i \o SubSeq(i, e + 1, n)

\* A faulty variant of _calculate_post_filepath: the pattern '^.*(.)(.)$', whose
\* first group is one character.
Mut_calculate_post_filepath(i) ==
    IF Len(i) < 3 \/ re_sub_shard(i) = i THEN i
    ELSE LET e == IF i[Len(i)] = "\n" THEN Len(i) - 1 ELSE Len(i)
         IN  <<i[e], "/", i[e - 1], "/">> \o i \o SubSeq(i, e + 1, Len(i))

\* helpers.py: _calculate_post_filepath
_calculate_post_filepath(i) ==
    IF Len(i) < 3 THEN i ELSE re_sub_shard(i)

\* A faulty variant of sanitize_tag: the invalid characters are removed before
\* the whitespace is stripped.
Mut_sanitize_tag(t) ==
    LET sanitized_tag == strip(re_sub_invalid(lower(t)))
        v == _validate_tag_sanitized(sanitized_tag)
    IN  IF v # "None" THEN Raise(v, <<"_validate_tag_sanitized">>)
        ELSE ReturnStr(sanitized_tag, <<"_validate_tag_sanitized">>)

\* helpers.py: sanitize_tag
sanitize_tag(t) ==
    LET stripped == strip(lower(t))
        sanitized_tag == re_sub_invalid(stripped)
        v == _validate_tag_sanitized(sanitized_tag)
    IN  IF v # "None" THEN Raise(v, <<"_validate_tag_sanitized">>)
        ELSE ReturnStr(sanitized_tag, <<"_validate_tag_sanitized">>)

\* helpers.py: parse_post_id.  None has no group(): AttributeError becomes
\* InvalidUrlFormat.  A ValueError of int() is logged and dropped, and the
\* captured text, already bound to post_id, is returned.
parse_post_id(u) ==
    LET m == re_search_post(u)
        n == py_int(m.group1)
    IN  IF ~m.found THEN Raise("InvalidUrlFormat", <<>>)
        ELSE IF n.ok THEN ReturnInt(n.value, <<>>)
        ELSE ReturnStr(m.group1, <<>>)

\* A faulty variant of create_media_filepath: the type is tested before is_video.
Mut_create_media_filepath(m) ==
    LET subdomain == IF m.type = Gif THEN <<"g">>
                     ELSE IF m.is_video THEN <<"v">>
                     ELSE <<"w">>
        url_type == IF m.type = Gif THEN Gif
                    ELSE IF m.is_video THEN m.type
                    ELSE Webp
        path == _calculate_post_filepath(m.dataid)
    IN  ReturnStr(Https \o subdomain \o DotNozomiLa \o path \o <<".">> \o url_type,
                  <<"_calculate_post_filepath">>)

\* helpers.py: create_media_filepath
create_media_filepath(m) ==
    LET subdomain == IF m.is_video THEN <<"v">>
                     ELSE IF m.type = Gif THEN <<"g">>
                     ELSE <<"w">>
        url_type == IF m.is_video THEN m.type
                    ELSE IF m.type = Gif THEN Gif
                    ELSE Webp
        path == _calculate_post_filepath(m.dataid)
    IN  ReturnStr(Https \o subdomain \o DotNozomiLa \o path \o <<".">> \o url_type,
                  <<"_calculate_post_filepath">>)

\* A faulty variant of create_tag_filepath: the tag is encoded unvalidated.
Mut_create_tag_filepath(sanitized_tag) ==
    ReturnStr(TagUrlPrefix \o _encode_tag(sanitized_tag) \o DotNozomi, <<"_encode_tag">>)

\* helpers.py: create_tag_filepath
create_tag_filepath(sanitized_tag) ==
    IF _validate_tag_sanitized(sanitized_tag) # "None"
    THEN Raise("InvalidTagFormat", <<"_validate_tag_sanitized">>)
    ELSE ReturnStr(TagUrlPrefix \o _encode_tag(sanitized_tag) \o DotNozomi,
                   <<"_validate_tag_sanitized", "_encode_tag">>)

\* A faulty variant of create_post_filepath: the path is not sharded.
Mut_create_post_filepath(n) ==
    ReturnStr(PostUrlPrefix \o py_str(n) \o DotJson, <<>>)

\* helpers.py: create_post_filepath
create_post_filepath(n) ==
    ReturnStr(PostUrlPrefix \o _calculate_post_filepath(py_str(n)) \o DotJson,
              <<"_calculate_post_filepath">>)

(***************************************************************************)
(* The arguments the callers pass.                                         *)
(***************************************************************************)
TagChars == {"A", "a", " ", "/", "#", "%", "-"}
RawTags == SeqsUpTo(TagChars, MaxTagLen) \cup {<<" ", "F", "o", "o", "/", "B", "a", "r", "#", " ">>}

EncChars == {"a", "-", "%", ";", "/", "?", ":", "@", "=", "&"}
Tags == SeqsUpTo(EncChars, MaxEncLen) \cup {<<"a", ";", "b", "&", "c">>, <<"c", "a", "t">>}

IdChars == {"a", "b", "1", "2", "\n"}
Ids == SeqsUpTo(IdChars, MaxIdLen) \cup {<<"a", "b", "c", "d", "e">>, <<"1", "2", "3">>}

MediaTypes == {Gif, <<"m", "p", "4">>, <<"j", "p", "g">>}
Medias == [dataid : Ids, is_video : BOOLEAN, type : MediaTypes]
NoMedia == [dataid |-> <<>>, is_video |-> FALSE, type |-> <<>>]

UrlPieces == {PostSlash, DotHtml, <<"0">>, <<"7">>, <<"-">>, <<"a">>, <<" ">>, <<"_">>}
Urls == {Flatten(ps) : ps \in SeqsUpTo(UrlPieces, MaxUrlPieces)}
          \cup {<<"h", "t", "t", "p", "s", ":", "/", "/", "n", "o", "z", "o", "m", "i", ".", "l", "a", "/", "p", "o", "s", "t", "/", "1", "2", "3", "4", "5", "6", ".", "h", "t", "m", "l">>,
                <<"h", "t", "t", "p", "s", ":", "/", "/", "n", "o", "z", "o", "m", "i", ".", "l", "a", "/", "i", "n", "v", "a", "l", "i", "d">>}

PostIds == (0 - MaxNegPostId)..MaxPostId

(***************************************************************************)
(* The state machine: a caller calls one function and gets its outcome.    *)
(***************************************************************************)
Init ==
    /\ pc = "idle"
    /\ fn = "none"
    /\ tag = <<>>
    /\ url = <<>>
    /\ id = <<>>
    /\ media = NoMedia
    /\ post_id = 0
    /\ ret = NoRet

Call_sanitize_tag ==
    /\ pc = "idle"
    /\ \E t \in RawTags : tag' = t /\ ret' = sanitize_tag(t)
    /\ fn' = "sanitize_tag"
    /\ pc' = "returned"
    /\ UNCHANGED <<url, id, media, post_id>>

Call_parse_post_id ==
    /\ pc = "idle"
    /\ \E u \in Urls : url' = u /\ ret' = parse_post_id(u)
    /\ fn' = "parse_post_id"
    /\ pc' = "returned"
    /\ UNCHANGED <<tag, id, media, post_id>>

Call_create_media_filepath ==
    /\ pc = "idle"
    /\ \E m \in Medias : media' = m /\ ret' = create_media_filepath(m)
    /\ fn' = "create_media_filepath"
    /\ pc' = "returned"
    /\ UNCHANGED <<tag, url, id, post_id>>

Call_create_tag_filepath ==
    /\ pc = "idle"
    /\ \E t \in Tags : tag' = t /\ ret' = create_tag_filepath(t)
    /\ fn' = "create_tag_filepath"
    /\ pc' = "returned"
    /\ UNCHANGED <<url, id, media, post_id>>

Call_create_post_filepath ==
    /\ pc = "idle"
    /\ \E n \in PostIds : post_id' = n /\ ret' = create_post_filepath(n)
    /\ fn' = "create_post_filepath"
    /\ pc' = "returned"
    /\ UNCHANGED <<tag, url, id, media>>

Call_calculate_post_filepath ==
    /\ pc = "idle"
    /\ \E i \in Ids : id' = i /\ ret' = ReturnStr(_calculate_post_filepath(i), <<>>)
    /\ fn' = "_calculate_post_filepath"
    /\ pc' = "returned"
    /\ UNCHANGED <<tag, url, media, post_id>>

Call_validate_tag_sanitized ==
    /\ pc = "idle"
    /\ \E t \in Tags :
          /\ tag' = t
          /\ ret' = IF _validate_tag_sanitized(t) = "None" THEN NoRet
                    ELSE Raise(_validate_tag_sanitized(t), <<>>)
    /\ fn' = "_validate_tag_sanitized"
    /\ pc' = "returned"
    /\ UNCHANGED <<url, id, media, post_id>>

Call_encode_tag ==
    /\ pc = "idle"
    /\ \E t \in Tags : tag' = t /\ ret' = ReturnStr(_encode_tag(t), <<>>)
    /\ fn' = "_encode_tag"
    /\ pc' = "returned"
    /\ UNCHANGED <<url, id, media, post_id>>

\* the caller takes the outcome; nothing of a call outlives it
Return ==
    /\ pc = "returned"
    /\ pc' = "idle"
    /\ fn' = "none"
    /\ tag' = <<>>
    /\ url' = <<>>
    /\ id' = <<>>
    /\ media' = NoMedia
    /\ post_id' = 0
    /\ ret' = NoRet

Next ==
    \/ Call_sanitize_tag
    \/ Call_parse_post_id
    \/ Call_create_media_filepath
    \/ Call_create_tag_filepath
    \/ Call_create_post_filepath
    \/ Call_calculate_post_filepath
    \/ Call_validate_tag_sanitized
    \/ Call_encode_tag
    \/ Return

Spec == Init /\ [][Next]_vars

(***************************************************************************)
(* The claims.                                                             *)
(***************************************************************************)
HasNewline(s) == \E k \in 1..Len(s) : s[k] = "\n"
Unsanitized(t) == t = <<>> \/ t[1] = "-"

\* C1 as stated: the path sharding function returns id unchanged when id has
\* fewer than 3 characters, and otherwise
\* <last character>/<second-to-last character>/<id>.
C1_Original ==
    fn = "_calculate_post_filepath" =>
        /\ ret.raised = "None"
        /\ ret.str = IF Len(id) < 3 THEN id
                     ELSE <<id[Len(id)], "/", id[Len(id) - 1], "/">> \o id

\* C1 (amended): the path sharding function returns id unchanged when id has
\* fewer than 3 characters; when id has 3 or more characters, none of them a
\* newline, it returns <last character>/<the two characters before the
\* last>/<id>.
C1_Shard ==
    (fn = "_calculate_post_filepath" /\ (Len(id) < 3 \/ ~HasNewline(id))) =>
        /\ ret.raised = "None"
        /\ ret.type = "str"
        /\ ret.str = IF Len(id) < 3 THEN id
                     ELSE <<id[Len(id)], "/", id[Len(id) - 2], id[Len(id) - 1], "/">> \o id

C1_Witness ==
    /\ fn = "_calculate_post_filepath"
    /\ id = <<"a", "b", "c", "d", "e">>
    /\ ret.str = <<"e", "/", "c", "d", "/", "a", "b", "c", "d", "e">>

\* C2: with s the raw tag lowercased, then stripped of leading and trailing
\* whitespace, then with every '/', '#' and '%' removed, sanitize_tag fails
\* with InvalidTagFormat exactly when s is empty or starts with '-', and
\* returns exactly s otherwise.
C2_Expected(t) ==
    LET low == [i \in 1..Len(t) |-> LowerChar(t[i])]
        inked == {i \in 1..Len(low) : ~IsSpace(low[i])}
        trimmed == IF inked = {} THEN <<>>
                   ELSE SubSeq(low, SetMin(inked), CHOOSE i \in inked : \A j \in inked : j <= i)
    IN  SelectSeq(trimmed, LAMBDA c : c # "/" /\ c # "#" /\ c # "%")

C2_Sanitize ==
    fn = "sanitize_tag" =>
        LET s == C2_Expected(tag)
        IN  /\ ret.raised = "InvalidTagFormat" <=> (s = <<>> \/ s[1] = "-")
            /\ ret.raised # "InvalidTagFormat" =>
                  ret.raised = "None" /\ ret.type = "str" /\ ret.str = s

C2_Witness ==
    /\ fn = "sanitize_tag"
    /\ tag = <<"/", " ", "A">>
    /\ ret.raised = "None"
    /\ ret.str = <<" ", "a">>

\* C3: every tag sanitize_tag returns is lowercase, has no leading or trailing
\* whitespace, contains none of '/', '#', '%', is non-empty and does not start
\* with '-'.
C3_SanitizedState ==
    (fn = "sanitize_tag" /\ ret.raised = "None") =>
        /\ ret.type = "str"
        /\ ret.str # <<>>
        /\ \A i \in 1..Len(ret.str) : LowerChar(ret.str[i]) = ret.str[i]
        /\ \A i \in 1..Len(ret.str) : ret.str[i] \notin {"/", "#", "%"}
        /\ ~IsSpace(ret.str[1])
        /\ ~IsSpace(ret.str[Len(ret.str)])
        /\ ret.str[1] # "-"

\* C4: whenever parse_post_id returns normally, the returned value is a
\* non-negative integer.
C4_NonNegativeInt ==
    (fn = "parse_post_id" /\ ret.raised = "None") =>
        ret.type = "int" /\ ret.int >= 0

\* C5: parse_post_id fails with InvalidUrlFormat exactly when the URL holds no
\* 'post/' followed later by '.html'; when it holds one and the text between
\* the first 'post/' and the first '.html' after it is a sequence of digits,
\* the integer value of those digits is returned.
C5_HasSegment(u) ==
    \E i \in 1..Len(u), j \in 1..Len(u) :
        LitAt(u, PostSlash, i) /\ j >= i + Len(PostSlash) /\ LitAt(u, DotHtml, j)

C5_Between(u) ==
    LET i == SetMin({k \in 1..Len(u) : LitAt(u, PostSlash, k)})
        j == SetMin({k \in (i + Len(PostSlash))..Len(u) : LitAt(u, DotHtml, k)})
    IN  SubSeq(u, i + Len(PostSlash), j - 1)

RECURSIVE C5_ValueOf(_)
C5_ValueOf(s) ==
    IF s = <<>> THEN 0
    ELSE 10 * C5_ValueOf(SubSeq(s, 1, Len(s) - 1)) + DigitValue(s[Len(s)])

C5_ParsePostId ==
    fn = "parse_post_id" =>
        /\ ret.raised = "InvalidUrlFormat" <=> ~C5_HasSegment(url)
        /\ C5_HasSegment(url) =>
              LET b == C5_Between(url)
              IN  (b # <<>> /\ \A k \in 1..Len(b) : IsDigit(b[k])) =>
                      ret.raised = "None" /\ ret.type = "int" /\ ret.int = C5_ValueOf(b)

C5_Witness ==
    /\ fn = "parse_post_id"
    /\ url = <<"h", "t", "t", "p", "s", ":", "/", "/", "n", "o", "z", "o", "m", "i", ".", "l", "a", "/", "p", "o", "s", "t", "/", "1", "2", "3", "4", "5", "6", ".", "h", "t", "m", "l">>
    /\ ret.type = "int"
    /\ ret.int = 123456

\* C7: for every tag that is non-empty and does not start with '-', the
\* encoder's output is the input with each of ; / ? : @ = & replaced by '%'
\* and the lowercase hexadecimal value of its character code, every other
\* character left unchanged in place and order.
C7_Table(c) ==
    CASE c = ";" -> <<"%", "3", "b">>
      [] c = "/" -> <<"%", "2", "f">>
      [] c = "?" -> <<"%", "3", "f">>
      [] c = ":" -> <<"%", "3", "a">>
      [] c = "@" -> <<"%", "4", "0">>
      [] c = "=" -> <<"%", "3", "d">>
      [] c = "&" -> <<"%", "2", "6">>
      [] OTHER -> <<c>>

C7_Expected(t) == Flatten([i \in 1..Len(t) |-> C7_Table(t[i])])

C7_Encode ==
    (fn = "_encode_tag" /\ ~Unsanitized(tag)) =>
        ret.raised = "None" /\ ret.type = "str" /\ ret.str = C7_Expected(tag)

C7_Witness ==
    /\ fn = "_encode_tag"
    /\ tag = <<"a", ";", "b", "&", "c">>
    /\ ret.str = <<"a", "%", "3", "b", "b", "%", "2", "6", "c">>

\* C6 as stated: the tag encoder fails with InvalidTagFormat, and returns no
\* encoded string, for every input tag that is empty or starts with '-'.
C6_Original ==
    (fn = "_encode_tag" /\ Unsanitized(tag)) =>
        ret.raised = "InvalidTagFormat" /\ ret.type = "NoneType"

\* C6 (amended): the tag encoder does not validate: for an input tag that is
\* empty or starts with '-' it returns the encoded tag.  InvalidTagFormat for
\* such a tag comes from create_tag_filepath, which validates first and never
\* reaches the encoder.
C6_EncoderUnchecked ==
    /\ (fn = "_encode_tag" /\ Unsanitized(tag)) =>
          ret.raised = "None" /\ ret.type = "str" /\ ret.str = C7_Expected(tag)
    /\ (fn = "create_tag_filepath" /\ Unsanitized(tag)) =>
          /\ ret.raised = "InvalidTagFormat"
          /\ ret.type = "NoneType"
          /\ \A k \in 1..Len(ret.calls) : ret.calls[k] # "_encode_tag"

C6_Witness ==
    /\ fn = "_encode_tag"
    /\ tag = <<"-", ";">>
    /\ ret.raised = "None"
    /\ ret.str = <<"-", "%", "3", "b">>

\* C8: create_tag_filepath fails with InvalidTagFormat and produces no URL
\* when the tag is empty or starts with '-', and otherwise returns
\* 'https://j.nozomi.la/nozomi/' + the encoder's output for the tag +
\* '.nozomi'.
C8_TagFilepath ==
    fn = "create_tag_filepath" =>
        IF Unsanitized(tag)
        THEN ret.raised = "InvalidTagFormat" /\ ret.type = "NoneType" /\ ret.str = <<>>
        ELSE /\ ret.raised = "None"
             /\ ret.type = "str"
             /\ ret.str = <<"h", "t", "t", "p", "s", ":", "/", "/", "j", ".", "n", "o", "z", "o", "m", "i", ".", "l", "a", "/", "n", "o", "z", "o", "m", "i", "/">>
                            \o _encode_tag(tag) \o <<".", "n", "o", "z", "o", "m", "i">>

C8_Witness ==
    /\ fn = "create_tag_filepath"
    /\ tag = <<"c", "a", "t">>
    /\ ret.str = <<"h", "t", "t", "p", "s", ":", "/", "/", "j", ".", "n", "o", "z", "o", "m", "i", ".", "l", "a", "/", "n", "o", "z", "o", "m", "i", "/", "c", "a", "t", ".", "n", "o", "z", "o", "m", "i">>

\* C9: create_media_filepath returns 'https://' + subdomain + '.nozomi.la/' +
\* shard path of dataid + '.' + extension, with (subdomain, extension) =
\* ('v', type) when is_video, whatever the type, ('g', 'gif') when not is_video
\* and type is 'gif', and ('w', 'webp') otherwise.
C9_MediaFilepath ==
    fn = "create_media_filepath" =>
        LET row == CASE media.is_video -> <<"v", media.type>>
                     [] ~media.is_video /\ media.type = <<"g", "i", "f">> -> <<"g", <<"g", "i", "f">>>>
                     [] OTHER -> <<"w", <<"w", "e", "b", "p">>>>
        IN  /\ ret.raised = "None"
            /\ ret.type = "str"
            /\ ret.str = <<"h", "t", "t", "p", "s", ":", "/", "/">> \o <<row[1]>> \o <<".", "n", "o", "z", "o", "m", "i", ".", "l", "a", "/">>
                           \o _calculate_post_filepath(media.dataid) \o <<".">> \o row[2]

C9_Witness ==
    /\ fn = "create_media_filepath"
    /\ media = [dataid |-> <<"a", "b", "c", "d", "e">>, is_video |-> TRUE, type |-> <<"g", "i", "f">>]
    /\ ret.str = <<"h", "t", "t", "p", "s", ":", "/", "/", "v", ".", "n", "o", "z", "o", "m", "i", ".", "l", "a", "/", "e", "/", "c", "d", "/", "a", "b", "c", "d", "e", ".", "g", "i", "f">>

\* C10: for every non-negative post identifier n, create_post_filepath(n)
\* returns 'https://j.nozomi.la/post/' + p + '.json' with p the path sharding
\* function's result for the decimal string of n; for n below 100 the URL is
\* 'https://j.nozomi.la/post/<n>.json', with no shard directories.
C10_Pow10(k) == IF k = 0 THEN 1 ELSE IF k = 1 THEN 10 ELSE IF k = 2 THEN 100
                ELSE IF k = 3 THEN 1000 ELSE IF k = 4 THEN 10000 ELSE 100000

C10_Decimal(n) ==
    LET k == SetMin({d \in 1..5 : n < C10_Pow10(d)})
    IN  [i \in 1..k |-> Digits[((n \div C10_Pow10(k - i)) % 10) + 1]]

C10_PostFilepath ==
    (fn = "create_post_filepath" /\ post_id >= 0) =>
        /\ ret.raised = "None"
        /\ ret.type = "str"
        /\ ret.str = <<"h", "t", "t", "p", "s", ":", "/", "/", "j", ".", "n", "o", "z", "o", "m", "i", ".", "l", "a", "/", "p", "o", "s", "t", "/">>
                       \o _calculate_post_filepath(C10_Decimal(post_id)) \o <<".", "j", "s", "o", "n">>
        /\ post_id < 100 =>
              ret.str = <<"h", "t", "t", "p", "s", ":", "/", "/", "j", ".", "n", "o", "z", "o", "m", "i", ".", "l", "a", "/", "p", "o", "s", "t", "/">> \o C10_Decimal(post_id) \o <<".", "j", "s", "o", "n">>

C10_Witness ==
    /\ fn = "create_post_filepath"
    /\ post_id = 99
    /\ ret.str = <<"h", "t", "t", "p", "s", ":", "/", "/", "j", ".", "n", "o", "z", "o", "m", "i", ".", "l", "a", "/", "p", "o", "s", "t", "/", "9", "9", ".", "j", "s", "o", "n">>

====
